---------------------------- MODULE Spec2Model ----------------------------
(***************************************************************************)
(* FinCrypt 2.0 (src/ui/app.py): the Bitcoin forecast pipeline of the      *)
(* Streamlit page.  load_price_data -> prepare_features -> train_model     *)
(* (TimeSeriesSplit + GridSearchCV over SVR) -> make_forecast, run by the  *)
(* "Run Prediction" button inside one try block, with the two memoising    *)
(* decorators st.cache_data and st.cache_resource.                         *)
(*                                                                         *)
(* Dates are day numbers (what datetime.toordinal yields up to a fixed     *)
(* offset); a missing Price cell is NaN.                The numerical       *)
(* optimisation inside sklearn's SVR is not part of the repository: the    *)
(* validation error of a (candidate, fold) pair is an uninterpreted table. *)
(***************************************************************************)
EXTENDS Integers, Sequences, FiniteSets, TLC

VARIABLES
    \* ---- the page (tab_forecast run block, the sidebar, the two caches)
    bundled,          \* contents of bitcoin.csv on disk ("missing": no such file)
    uploaded,         \* st.sidebar.file_uploader value ("None" or a file)
    prediction_days,  \* the slider
    cache_data,       \* st.cache_data store of load_price_data: key -> DataFrame
    cache_resource,   \* st.cache_resource store of train_model: key -> result
    pc,               \* position inside the run block
    raw,              \* the raw input this run reads (what the loader would parse now)
    df_prices,        \* local of the run block
    features,         \* (X, y) of the run block
    trained,          \* (model, rmse, best_params) of the run block
    forecast_df,      \* local of the run block
    shown,            \* the st.* elements rendered by this rerun, in order
    failed_at,        \* the stage whose call raised, "" when none did
    \* ---- TimeSeriesSplit.split as the generator it is
    ts_n, ts_out, ts_pc,
    \* ---- GridSearchCV.fit on one series
    gs_n, gs_nan, gs_mse, gs_result, gs_pc,
    \* ---- the joblib pool of GridSearchCV(n_jobs=-1)
    par_next, par_running, par_out, par_result,
    \* ---- load_price_data alone
    ld_rows, ld_df, ld_pc

pageVars   == <<bundled, uploaded, prediction_days, cache_data, cache_resource,
                pc, raw, df_prices, features, trained, forecast_df, shown, failed_at>>
splitVars  == <<ts_n, ts_out, ts_pc>>
searchVars == <<gs_n, gs_nan, gs_mse, gs_result, gs_pc>>
parVars    == <<par_next, par_running, par_out, par_result>>
loadVars   == <<ld_rows, ld_df, ld_pc>>
vars == <<pageVars, splitVars, searchVars, parVars, loadVars>>

(***************************************************************************)
(* Bounds of the model.                                                    *)
(***************************************************************************)
MaxSamples == 24     \* longest series handed to the splitter alone
MaxSeries  == 11     \* longest series handed to the grid search
MaxErr     == 1      \* validation errors (MSE) range over 0..MaxErr
MaxNoisy   == 2      \* cells of a table of validation errors that are not 0
NWorkers   == 2      \* worker processes of the joblib pool (n_jobs=-1: one per CPU)
MaxLen     == 4      \* rows of a CSV handed to the loader alone
MaxDate    == 2      \* dates of those rows range over 1..MaxDate

(***************************************************************************)
(* Program constants.                                                      *)
(***************************************************************************)
n_splits  == 5       \* TimeSeriesSplit(n_splits=5)
min_value == 1       \* slider
max_value == 30      \* slider
value     == 7       \* slider default

\* A float: nan, or the number v.
NaN == [nan |-> TRUE, v |-> 0]
Num(x) == [nan |-> FALSE, v |-> x]

\* A CSV file: the columns of its header and its data rows.  exists = FALSE is
\* no file at all (nothing uploaded, or bitcoin.csv absent from the folder).
NoFile == [exists |-> FALSE, cols |-> {}, rows |-> <<>>]

RECURSIVE SumSeq(_)
SumSeq(s) == IF s = <<>> THEN 0 ELSE Head(s) + SumSeq(Tail(s))

SetMax(S) == CHOOSE x \in S : \A y \in S : y <= x

(***************************************************************************)
(* sklearn.model_selection.TimeSeriesSplit(n_splits).split(X), gap = 0,    *)
(* test_size = None, max_train_size = None, as called by train_model.      *)
(* Indices are 0-based.  "ValueError" when n_folds > n_samples.            *)
(***************************************************************************)
TestSize(n) == n \div (n_splits + 1)

TestStart(n, i) == (n - n_splits * TestSize(n)) + (i - 1) * TestSize(n)

MkFoldLeaky(n, i) ==
    [train |-> 0 .. TestStart(n, i),
     test  |-> TestStart(n, i) .. (TestStart(n, i) + TestSize(n) - 1)]

MkFold(n, i) ==
    [train |-> 0 .. (TestStart(n, i) - 1),
     test  |-> TestStart(n, i) .. (TestStart(n, i) + TestSize(n) - 1)]

SplitRaises(n) == (n_splits + 1) > n

TimeSeriesSplit(n) ==
    IF SplitRaises(n) THEN "ValueError"
    ELSE [i \in 1 .. n_splits |-> MkFold(n, i)]

(***************************************************************************)
(* The splitter on its own: split() is a generator, one fold per step.     *)
(***************************************************************************)
IdlePage ==
    /\ bundled = NoFile /\ uploaded = NoFile /\ prediction_days = value
    /\ cache_data = {} /\ cache_resource = {}
    /\ pc = "off" /\ raw = NoFile /\ df_prices = <<>> /\ features = <<>>
    /\ trained = <<>> /\ forecast_df = <<>> /\ shown = <<>> /\ failed_at = ""

IdleSplit == ts_n = 0 /\ ts_out = <<>> /\ ts_pc = "off"

IdleSearch ==
    /\ gs_n = 0 /\ gs_nan = 0 /\ gs_mse = <<>> /\ gs_result = "None" /\ gs_pc = "off"

IdlePar == par_next = 0 /\ par_running = {} /\ par_out = <<>> /\ par_result = "None"

IdleLoad == ld_rows = <<>> /\ ld_df = <<>> /\ ld_pc = "off"

InitSplit ==
    /\ ts_n \in 0 .. MaxSamples
    /\ ts_out = <<>>
    /\ ts_pc = "split"
    /\ IdlePage /\ IdleSearch /\ IdlePar /\ IdleLoad

SplitRaise ==
    /\ ts_pc = "split"
    /\ SplitRaises(ts_n)
    /\ ts_pc' = "ValueError"
    /\ UNCHANGED <<ts_n, ts_out>>
    /\ UNCHANGED <<pageVars, searchVars, parVars, loadVars>>

SplitYield ==
    /\ ts_pc = "split"
    /\ ~SplitRaises(ts_n)
    /\ Len(ts_out) < n_splits
    /\ ts_out' = Append(ts_out, TimeSeriesSplit(ts_n)[Len(ts_out) + 1])
    /\ ts_pc' = IF Len(ts_out) + 1 = n_splits THEN "done" ELSE "split"
    /\ UNCHANGED ts_n
    /\ UNCHANGED <<pageVars, searchVars, parVars, loadVars>>

NextSplit == SplitRaise \/ SplitYield

SpecSplit == InitSplit /\ [][NextSplit]_vars

\* C2: for every N >= 2*n_splits the splitter yields exactly n_splits folds
\* (none is refused); in each fold both index sets are non-empty, every
\* training index is smaller than every validation index, the training set is exactly the samples before the
\* validation block, the block is contiguous, and the blocks of successive folds
\* never move backwards.
C2_WalkForward ==
    /\ (ts_pc = "ValueError") => ts_n < 2 * n_splits
    /\ (ts_pc = "done" /\ ts_n >= 2 * n_splits) =>
        /\ Len(ts_out) = n_splits
        /\ \A i \in 1 .. n_splits :
              LET f == ts_out[i] IN
              /\ f.train # {} /\ f.test # {}
              /\ f.train \subseteq 0 .. (ts_n - 1)
              /\ f.test \subseteq 0 .. (ts_n - 1)
              /\ \A a \in f.train : \A b \in f.test : a < b
              /\ f.train = {a \in 0 .. (ts_n - 1) : \A b \in f.test : a < b}
              /\ f.test = {b \in 0 .. (ts_n - 1) :
                             /\ b >= SetMax(f.train) + 1
                             /\ b <= SetMax(f.test)}
        /\ \A i \in 1 .. (n_splits - 1) :
              \A a \in ts_out[i].test : \A b \in ts_out[i + 1].test : a <= b

C2_Witness ==
    /\ ts_pc = "done" /\ ts_n > 2 * n_splits
    /\ Len(ts_out) = n_splits
    /\ Cardinality(ts_out[1].test) >= 2

(***************************************************************************)
(* train_model: GridSearchCV(SVR(), param_grid, cv=tscv,                   *)
(* scoring="neg_mean_squared_error", n_jobs=-1).fit(X, y), refit=True and  *)
(* error_score=nan being the defaults.                                     *)
(*                                                                         *)
(* param_grid keeps the shape of the source (C, gamma in thousandths,      *)
(* kernel) with the candidate lists cut to two values of C and one gamma:  *)
(* the table of validation errors has one cell per (candidate, fold).      *)
(***************************************************************************)
param_grid == [C |-> <<1, 10>>, gamma |-> <<1>>, kernel |-> <<"rbf">>]

\* sklearn.model_selection.ParameterGrid: keys sorted, the last key fastest.
ParameterGrid ==
    LET nC == Len(param_grid.C)
        nG == Len(param_grid.gamma)
        nK == Len(param_grid.kernel)
    IN [j \in 1 .. (nC * nG * nK) |->
           [C      |-> param_grid.C[((j - 1) \div (nG * nK)) + 1],
            gamma  |-> param_grid.gamma[(((j - 1) \div nK) % nG) + 1],
            kernel |-> param_grid.kernel[((j - 1) % nK) + 1]]]

Candidates == 1 .. Len(ParameterGrid)
Folds == 1 .. n_splits

\* The tables of validation errors within the bounds: what SVR.fit followed by
\* mean_squared_error on the validation block yields for each (candidate, fold).
MseTables ==
    {t \in [Candidates -> [Folds -> 0 .. MaxErr]] :
        Cardinality({cf \in Candidates \X Folds : t[cf[1]][cf[2]] # 0}) <= MaxNoisy}

\* y is given by its length n and the row (1-based, 0: none) whose Price cell is
\* missing.  estimator.fit (check_X_y) raises on a NaN target among the training
\* rows, the scorer (mean_squared_error) on one among the validation rows;
\* _fit_and_score turns either into error_score = nan.
FitFails(n, nan, i) == nan # 0 /\ (nan - 1) \in MkFold(n, i).train

ScoreFails(n, nan, i) == nan # 0 /\ (nan - 1) \in MkFold(n, i).test

\* scoring="neg_mean_squared_error": the fold's score is minus its error.
TestScoreUnsigned(n, nan, tbl, c, i) ==
    IF FitFails(n, nan, i) \/ ScoreFails(n, nan, i) THEN NaN ELSE Num(tbl[c][i])

TestScore(n, nan, tbl, c, i) ==
    IF FitFails(n, nan, i) \/ ScoreFails(n, nan, i) THEN NaN ELSE Num(0 - tbl[c][i])

\* The (candidate, fold) evaluations in the order evaluate_candidates submits
\* them: product(candidate_params, cv.split(X, y)), candidates outermost.
NTasks == Len(ParameterGrid) * n_splits
CandOf(k) == ((k - 1) \div n_splits) + 1
FoldOf(k) == ((k - 1) % n_splits) + 1

\* _fit_and_score of task k.
FitAndScore(n, nan, tbl, k) == TestScore(n, nan, tbl, CandOf(k), FoldOf(k))

\* _format_results: the list of results, in submission order, reshaped to
\* (n_candidates, n_splits).
Reshape(out) == [c \in Candidates |-> [i \in Folds |-> out[(c - 1) * n_splits + i]]]

\* mean_test_score, times n_splits (np.average over the folds; nan propagates).
MeanTestScore(scores, c) ==
    IF \E i \in Folds : scores[c][i].nan THEN NaN
    ELSE Num(SumSeq([i \in Folds |-> scores[c][i].v]))

\* rank_test_score = rankdata(-means, "min") with nan means ranked last (all
\* first when every mean is nan); best_index_ = rank_test_score.argmin(), the
\* first candidate of rank 1.
BestIndex(means) ==
    LET defined == {c \in DOMAIN means : ~means[c].nan} IN
    IF defined = {} THEN 1
    ELSE CHOOSE c \in defined :
            /\ \A d \in defined : means[d].v <= means[c].v
            /\ \A d \in defined : d < c => means[d].v < means[c].v

\* _warn_or_raise_about_fit_failures: every fit of the search failed.
AllFitsFailed(n, nan) == \A i \in Folds : FitFails(n, nan, i)

\* cv_results_ of the search, before the refit.
CvResults(out) ==
    LET means == [c \in Candidates |-> MeanTestScore(Reshape(out), c)] IN
    [mean_test_score |-> means, best_index_ |-> BestIndex(means)]

\* The evaluations run one after the other.
AllOut(n, nan, tbl) == [k \in 1 .. NTasks |-> FitAndScore(n, nan, tbl, k)]

\* best_estimator_.fit(X, y) on the whole series raises on a NaN target.
RefitRaises(nan) == nan # 0

\* What train_model returns: (best_model, rmse, best_params).  rmse is
\* sqrt(-best_score_); the model carries its radicand, times n_splits.
TrainReturn(cv) ==
    [best_params |-> ParameterGrid[cv.best_index_],
     best_index_ |-> cv.best_index_,
     best_score_ |-> cv.mean_test_score[cv.best_index_],
     rmse_sq     |-> [nan |-> cv.mean_test_score[cv.best_index_].nan,
                      v   |-> 0 - cv.mean_test_score[cv.best_index_].v]]

(***************************************************************************)
(* The search on its own, on one series and one table of errors.           *)
(***************************************************************************)
SeriesLengths == {n_splits} \cup (2 * n_splits .. MaxSeries)

InitSearch ==
    /\ gs_n \in SeriesLengths
    /\ gs_nan \in 0 .. gs_n
    /\ gs_mse \in MseTables
    /\ gs_result = "None"
    /\ gs_pc = "fit"
    /\ IdlePage /\ IdleSplit /\ IdlePar /\ IdleLoad

\* cv.split raises, or every fit failed.
SearchRaise ==
    /\ gs_pc = "fit"
    /\ SplitRaises(gs_n) \/ AllFitsFailed(gs_n, gs_nan)
    /\ gs_pc' = "ValueError"
    /\ UNCHANGED <<gs_n, gs_nan, gs_mse, gs_result>>
    /\ UNCHANGED <<pageVars, splitVars, parVars, loadVars>>

SearchEvaluate ==
    /\ gs_pc = "fit"
    /\ ~SplitRaises(gs_n) /\ ~AllFitsFailed(gs_n, gs_nan)
    /\ gs_result' = CvResults(AllOut(gs_n, gs_nan, gs_mse))
    /\ gs_pc' = "refit"
    /\ UNCHANGED <<gs_n, gs_nan, gs_mse>>
    /\ UNCHANGED <<pageVars, splitVars, parVars, loadVars>>

SearchRefitRaise ==
    /\ gs_pc = "refit"
    /\ RefitRaises(gs_nan)
    /\ gs_pc' = "ValueError"
    /\ gs_result' = "None"
    /\ UNCHANGED <<gs_n, gs_nan, gs_mse>>
    /\ UNCHANGED <<pageVars, splitVars, parVars, loadVars>>

SearchReturn ==
    /\ gs_pc = "refit"
    /\ ~RefitRaises(gs_nan)
    /\ gs_result' = TrainReturn(gs_result)
    /\ gs_pc' = "done"
    /\ UNCHANGED <<gs_n, gs_nan, gs_mse>>
    /\ UNCHANGED <<pageVars, splitVars, parVars, loadVars>>

NextSearch == SearchRaise \/ SearchEvaluate \/ SearchRefitRaise \/ SearchReturn

SpecSearch == InitSearch /\ [][NextSearch]_vars

\* The mean validation error of a candidate over all folds, times n_splits.
SumErr(tbl, c) == SumSeq([i \in Folds |-> tbl[c][i]])

\* C6: on a series of at least 2*n_splits numeric points the search returns;
\* whenever it returns, bestConfig is a member of the grid, its mean validation
\* error is minimal among all candidates, no earlier candidate of the grid has
\* the same mean, and the reported error is that mean and is >= 0.
C6_BestConfig ==
    /\ (gs_pc = "ValueError") => (gs_n < 2 * n_splits \/ gs_nan # 0)
    /\ (gs_pc = "done") =>
        /\ \E c \in Candidates : ParameterGrid[c] = gs_result.best_params
        /\ gs_result.best_params = ParameterGrid[gs_result.best_index_]
        /\ \A d \in Candidates :
              SumErr(gs_mse, gs_result.best_index_) <= SumErr(gs_mse, d)
        /\ \A d \in Candidates :
              d < gs_result.best_index_ =>
                  SumErr(gs_mse, d) > SumErr(gs_mse, gs_result.best_index_)
        /\ gs_result.rmse_sq = Num(SumErr(gs_mse, gs_result.best_index_))
        /\ gs_result.rmse_sq.v >= 0

\* A tie between the two candidates, on different folds, on a series of
\* 2*n_splits points or more: the first of the grid is returned.
C6_Witness ==
    /\ gs_pc = "done" /\ gs_n >= 2 * n_splits
    /\ SumErr(gs_mse, 1) = SumErr(gs_mse, 2)
    /\ SumErr(gs_mse, 1) > 0
    /\ gs_mse[1] # gs_mse[2]
    /\ gs_result.best_index_ = 1

\* Folds on which the candidates were fitted.
FittedFolds(n, nan) == {i \in Folds : ~FitFails(n, nan, i)}

PartialErr(n, nan, tbl, c) ==
    SumSeq([i \in Folds |-> IF i \in FittedFolds(n, nan) THEN tbl[c][i] ELSE 0])

\* C9 (as claimed): when the fits of a candidate fail on some but not all folds,
\* the search still returns, and returns a candidate whose mean error over the
\* folds it was fitted on is minimal.
C9_PartialFailureEligible ==
    (/\ gs_pc \in {"done", "ValueError"}
     /\ ~SplitRaises(gs_n)
     /\ FittedFolds(gs_n, gs_nan) # {}
     /\ FittedFolds(gs_n, gs_nan) # Folds) =>
        /\ gs_pc = "done"
        /\ \A d \in Candidates :
              PartialErr(gs_n, gs_nan, gs_mse, gs_result.best_index_)
                 <= PartialErr(gs_n, gs_nan, gs_mse, d)

(***************************************************************************)
(* The same search with its evaluations on the joblib pool (n_jobs=-1).    *)
(* Tasks are handed out in submission order, a worker takes the next one   *)
(* when it is free, tasks finish in any order; Parallel returns the list   *)
(* of results in submission order once every task has finished.            *)
(***************************************************************************)
InitPar ==
    /\ gs_n = 2 * n_splits
    /\ gs_nan = 0
    /\ gs_mse \in MseTables
    /\ gs_result = "None"
    /\ gs_pc = "fit"
    /\ par_next = 0
    /\ par_running = {}
    /\ par_out = <<>>
    /\ par_result = "None"
    /\ IdlePage /\ IdleSplit /\ IdleLoad

\* The tasks whose result the collector holds.
Finished == DOMAIN par_out

AllDispatched == par_next = NTasks /\ gs_pc = "fit"

\* Aggregating as soon as the last task is handed to a worker.
AggregateEarly == AllDispatched

\* The collector returns once every task has been handed out and has finished.
AllFinished == AllDispatched /\ par_running = {}

ParDispatch ==
    /\ gs_pc = "fit"
    /\ par_next < NTasks
    /\ Cardinality(par_running) < NWorkers
    /\ par_next' = par_next + 1
    /\ par_running' = par_running \cup {par_next + 1}
    /\ UNCHANGED <<par_out, par_result>>
    /\ UNCHANGED <<pageVars, splitVars, searchVars, loadVars>>

ParComplete(k) ==
    /\ gs_pc = "fit"
    /\ k \in par_running
    /\ par_running' = par_running \ {k}
    /\ par_out' = [j \in Finished \cup {k} |->
                      IF j = k THEN FitAndScore(gs_n, gs_nan, gs_mse, k)
                      ELSE par_out[j]]
    /\ UNCHANGED <<par_next, par_result>>
    /\ UNCHANGED <<pageVars, splitVars, searchVars, loadVars>>

\* A result still missing when the list is read.
Retrieved(k) == IF k \in Finished THEN par_out[k] ELSE Num(0)

ParAggregate ==
    /\ AllFinished
    /\ par_result' = TrainReturn(CvResults([k \in 1 .. NTasks |-> Retrieved(k)]))
    /\ gs_pc' = "done"
    /\ UNCHANGED <<par_next, par_running, par_out>>
    /\ UNCHANGED <<gs_n, gs_nan, gs_mse, gs_result>>
    /\ UNCHANGED <<pageVars, splitVars, loadVars>>

NextPar == ParDispatch \/ (\E k \in 1 .. NTasks : ParComplete(k)) \/ ParAggregate

SpecPar == InitPar /\ [][NextPar]_vars

\* C10: whatever the order in which the evaluations start and finish on the
\* pool, the means are computed only once every (candidate, fold) score is
\* there, each score is the one of its own (candidate, fold), and bestConfig
\* and bestScore are those of the evaluations run one after the other.
C10_OrderIndependent ==
    /\ \A k \in Finished :
          par_out[k] = TestScore(gs_n, gs_nan, gs_mse, CandOf(k), FoldOf(k))
    /\ (gs_pc = "done") =>
        /\ Finished = 1 .. NTasks
        /\ par_result = TrainReturn(CvResults(AllOut(gs_n, gs_nan, gs_mse)))
        /\ \A d \in Candidates :
              SumErr(gs_mse, par_result.best_index_) <= SumErr(gs_mse, d)

\* The pool has merged a run whose last task finished while an earlier one was
\* still running, and the second candidate of the grid won.
C10_Witness ==
    /\ gs_pc = "done"
    /\ par_result.best_index_ = 2
    /\ SumErr(gs_mse, 1) > SumErr(gs_mse, 2)

(***************************************************************************)
(* load_price_data.  pd.read_csv gives the rows a RangeIndex in input      *)
(* order; sort_values("Date") sorts with the default kind="quicksort",     *)
(* which numpy and pandas document as not stable (numpy's introsort        *)
(* partitions any run longer than 16 elements, exchanging equal keys): the *)
(* order of rows that share a date is whatever the sort leaves.            *)
(* reset_index(drop=True) relabels the rows 0..n-1.                        *)
(***************************************************************************)
expected_cols == {"Date", "Price"}

\* pd.read_csv: the data rows, labelled 0..n-1.
ReadCsv(file) ==
    [i \in 1 .. Len(file.rows) |->
        [idx |-> i - 1, Date |-> file.rows[i].Date, Price |-> file.rows[i].Price]]

\* The check of line 100.
SchemaRaises(file) == ~(expected_cols \subseteq file.cols)

\* The rows of S (positions of df) whose date is the smallest.
Earliest(df, S) == {i \in S : \A j \in S : df[i].Date <= df[j].Date}

\* The orders of the rows S that ascend by date: any row of the smallest date
\* may come first.
RECURSIVE OrdersFrom(_, _)
OrdersFrom(df, S) ==
    IF S = {} THEN {<<>>}
    ELSE UNION {{<<df[i]>> \o t : t \in OrdersFrom(df, S \ {i})} : i \in Earliest(df, S)}

\* df.sort_values("Date"): every order the sort can leave.
SortValues(df) == OrdersFrom(df, DOMAIN df)

\* reset_index(drop=True).
ResetIndex(df) ==
    [i \in 1 .. Len(df) |-> [idx |-> i - 1, Date |-> df[i].Date, Price |-> df[i].Price]]

\* The DataFrames load_price_data can return for a file that passes line 100.
LoadPriceData(file) == {ResetIndex(d) : d \in SortValues(ReadCsv(file))}

(***************************************************************************)
(* The loader on its own, on every small file: the price of a row is its   *)
(* position in the input, so that rows stay told apart after the sort.     *)
(***************************************************************************)
SmallFiles ==
    UNION {
      {[exists |-> TRUE, cols |-> c,
        rows |-> [i \in 1 .. n |-> [Date |-> d[i], Price |-> Num(i)]]] :
          d \in [1 .. n -> 1 .. MaxDate], c \in SUBSET expected_cols} :
      n \in 0 .. MaxLen}

InitLoad ==
    /\ ld_rows \in SmallFiles
    /\ ld_df = <<>>
    /\ ld_pc = "load"
    /\ IdlePage /\ IdleSplit /\ IdleSearch /\ IdlePar

LoadRaise ==
    /\ ld_pc = "load"
    /\ SchemaRaises(ld_rows)
    /\ ld_pc' = "ValueError"
    /\ UNCHANGED <<ld_rows, ld_df>>
    /\ UNCHANGED <<pageVars, splitVars, searchVars, parVars>>

LoadReturn ==
    /\ ld_pc = "load"
    /\ ~SchemaRaises(ld_rows)
    /\ ld_df' \in LoadPriceData(ld_rows)
    /\ ld_pc' = "returned"
    /\ UNCHANGED ld_rows
    /\ UNCHANGED <<pageVars, splitVars, searchVars, parVars>>

NextLoad == LoadRaise \/ LoadReturn

SpecLoad == InitLoad /\ [][NextLoad]_vars

\* The rows of a DataFrame without their index labels, as a bag would hold them.
Payload(df) == {<<df[i].Date, df[i].Price>> : i \in DOMAIN df}

\* C7 (as claimed): the returned Series is in ascending date order, its index is
\* 0..n-1, it holds exactly the rows of the input, and rows that share a date
\* are in the order they had in the input.
C7_SortedStable ==
    (ld_pc = "returned") =>
        /\ Len(ld_df) = Len(ld_rows.rows)
        /\ Payload(ld_df) = Payload(ReadCsv(ld_rows))
        /\ \A i \in DOMAIN ld_df : ld_df[i].idx = i - 1
        /\ \A i, j \in DOMAIN ld_df : i < j => ld_df[i].Date <= ld_df[j].Date
        /\ \A i, j \in DOMAIN ld_df :
              (i < j /\ ld_df[i].Date = ld_df[j].Date) =>
                  ld_df[i].Price.v < ld_df[j].Price.v

(***************************************************************************)
(* prepare_features, make_forecast.                                        *)
(***************************************************************************)
\* X is the column of day ordinals, y the column of prices.
PrepareFeatures(df) ==
    [X |-> [i \in DOMAIN df |-> df[i].Date], y |-> [i \in DOMAIN df |-> df[i].Price]]

\* The first row (1-based) of y that is NaN, 0 when none is.
NanRow(y) ==
    IF \E i \in DOMAIN y : y[i].nan
    THEN CHOOSE i \in DOMAIN y : y[i].nan /\ \A j \in DOMAIN y : y[j].nan => i <= j
    ELSE 0

\* The validation errors of SVR on (X, y): fixed by the data and the candidate.
\* The optimiser is outside the repository; this stand-in only makes the errors
\* a function of the data.
SvrMse(Xy) ==
    [c \in Candidates |-> [i \in Folds |-> (c + i + Len(Xy.y)) % (MaxErr + 1)]]

\* train_model(X, y): <<>> when grid_search.fit raises ValueError, else the
\* one-element tuple of what it returns.
TrainModel(Xy) ==
    LET n == Len(Xy.y)
        nan == NanRow(Xy.y)
    IN IF SplitRaises(n) THEN <<>>
       ELSE IF AllFitsFailed(n, nan) \/ RefitRaises(nan) THEN <<>>
       ELSE <<TrainReturn(CvResults(AllOut(n, nan, SvrMse(Xy))))>>

\* df["Date"].max()
LastDate(df) == SetMax({df[i].Date : i \in DOMAIN df})

\* [last_date + timedelta(days=i) for i in range(1, horizon + 1)]
FutureDatesFromZero(df, horizon) == [i \in 1 .. horizon |-> LastDate(df) + (i - 1)]

FutureDates(df, horizon) == [i \in 1 .. horizon |-> LastDate(df) + i]

\* model.predict(ordinal): a value fixed by the fitted model and the ordinal.
Predict(model, x) == [C |-> model.best_params.C, gamma |-> model.best_params.gamma, x |-> x]

MakeForecastDf(model, df, horizon) ==
    [i \in 1 .. horizon |->
        [Date |-> FutureDates(df, horizon)[i],
         Predicted |-> Predict(model, FutureDates(df, horizon)[i])]]

(***************************************************************************)
(* The page.  Files the user and the folder can hold.                      *)
(***************************************************************************)
DailyRows(n, d0) == [i \in 1 .. n |-> [Date |-> d0 + i - 1, Price |-> Num(i)]]

NewestFirst(rows) == [i \in 1 .. Len(rows) |-> rows[Len(rows) + 1 - i]]

CsvFile(cols, rows) == [exists |-> TRUE, cols |-> cols, rows |-> rows]

Good6    == CsvFile(expected_cols, NewestFirst(DailyRows(n_splits + 1, 1)))
Good7    == CsvFile(expected_cols, DailyRows(n_splits + 2, 2))
Short3   == CsvFile(expected_cols, DailyRows(n_splits - 2, 1))
EmptyCsv == CsvFile(expected_cols, <<>>)
NoPrice  == CsvFile({"Date"}, DailyRows(n_splits + 1, 1))
NoDate   == CsvFile({"Price"}, DailyRows(n_splits + 1, 1))

BundledFiles == {NoFile, Good6, Good7, NoPrice, EmptyCsv}
UploadFiles  == {NoFile, Good7, Short3, NoDate}

\* A memoising decorator's store: pairs <<key, value>>.
CacheHit(cache, key) == \E e \in cache : e[1] = key
CacheGet(cache, key) == (CHOOSE e \in cache : e[1] = key)[2]

\* st.cache_data hashes the argument: None by value, an UploadedFile by its name
\* and bytes.  The file read for None (bitcoin.csv) is not part of the key.
DataKey(file) == file

\* st.cache_resource hashes (X, y) by content.
ResourceKey(Xy) == Xy

Running == pc \in {"load", "preview", "features", "train", "metrics",
                   "forecast", "table", "plot"}

ClearRun ==
    /\ df_prices' = <<>> /\ features' = <<>> /\ trained' = <<>>
    /\ forecast_df' = <<>> /\ shown' = <<>> /\ failed_at' = ""

KeepRun == UNCHANGED <<df_prices, features, trained, forecast_df, shown, failed_at>>

others == <<splitVars, searchVars, parVars, loadVars>>

InitPage ==
    /\ bundled \in BundledFiles
    /\ uploaded = NoFile
    /\ prediction_days = value
    /\ cache_data = {} /\ cache_resource = {}
    /\ pc = "idle" /\ raw = NoFile
    /\ df_prices = <<>> /\ features = <<>> /\ trained = <<>>
    /\ forecast_df = <<>> /\ shown = <<>> /\ failed_at = ""
    /\ IdleSplit /\ IdleSearch /\ IdlePar /\ IdleLoad

\* A widget changes: Streamlit reruns the script with run_clicked = False, and
\* the run block renders nothing.
Upload(f) ==
    /\ ~Running
    /\ f # uploaded
    /\ uploaded' = f
    /\ pc' = "idle" /\ raw' = NoFile /\ ClearRun
    /\ UNCHANGED <<bundled, prediction_days, cache_data, cache_resource>>
    /\ UNCHANGED others

MoveSlider(h) ==
    /\ ~Running
    /\ h # prediction_days
    /\ prediction_days' = h
    /\ pc' = "idle" /\ raw' = NoFile /\ ClearRun
    /\ UNCHANGED <<bundled, uploaded, cache_data, cache_resource>>
    /\ UNCHANGED others

\* bitcoin.csv is replaced, removed or restored in the folder of app.py.
ReplaceBundled(f) ==
    /\ ~Running
    /\ f # bundled
    /\ bundled' = f
    /\ UNCHANGED <<uploaded, prediction_days, cache_data, cache_resource, pc, raw>>
    /\ KeepRun
    /\ UNCHANGED others

\* "Run Prediction".
RunClicked ==
    /\ ~Running
    /\ pc' = "load"
    /\ raw' = IF uploaded.exists THEN uploaded ELSE bundled
    /\ ClearRun
    /\ UNCHANGED <<bundled, uploaded, prediction_days, cache_data, cache_resource>>
    /\ UNCHANGED others

\* except ...: st.error(...)
Fail(stage, message) ==
    /\ pc' = "error"
    /\ failed_at' = stage
    /\ shown' = Append(shown, message)

\* df_prices = load_price_data(uploaded_file): the memoised value.
LoadHit ==
    /\ pc = "load"
    /\ CacheHit(cache_data, DataKey(uploaded))
    /\ df_prices' = CacheGet(cache_data, DataKey(uploaded))
    /\ pc' = "preview"
    /\ UNCHANGED <<bundled, uploaded, prediction_days, cache_data, cache_resource, raw>>
    /\ UNCHANGED <<features, trained, forecast_df, shown, failed_at>>
    /\ UNCHANGED others

\* The file the body of load_price_data reads.
Opened == IF uploaded.exists THEN uploaded ELSE bundled

LoadFileNotFound ==
    /\ pc = "load"
    /\ ~CacheHit(cache_data, DataKey(uploaded))
    /\ ~Opened.exists
    /\ Fail("load", "error: FileNotFoundError")
    /\ UNCHANGED <<bundled, uploaded, prediction_days, cache_data, cache_resource, raw>>
    /\ UNCHANGED <<df_prices, features, trained, forecast_df>>
    /\ UNCHANGED others

LoadSchemaError ==
    /\ pc = "load"
    /\ ~CacheHit(cache_data, DataKey(uploaded))
    /\ Opened.exists
    /\ SchemaRaises(Opened)
    /\ Fail("load", "error: ValueError")
    /\ UNCHANGED <<bundled, uploaded, prediction_days, cache_data, cache_resource, raw>>
    /\ UNCHANGED <<df_prices, features, trained, forecast_df>>
    /\ UNCHANGED others

LoadMiss ==
    /\ pc = "load"
    /\ ~CacheHit(cache_data, DataKey(uploaded))
    /\ Opened.exists
    /\ ~SchemaRaises(Opened)
    /\ \E df \in LoadPriceData(Opened) :
          /\ df_prices' = df
          /\ cache_data' = cache_data \cup {<<DataKey(uploaded), df>>}
    /\ pc' = "preview"
    /\ UNCHANGED <<bundled, uploaded, prediction_days, cache_resource, raw>>
    /\ UNCHANGED <<features, trained, forecast_df, shown, failed_at>>
    /\ UNCHANGED others

\* st.subheader("Raw Data Preview"); st.dataframe(df_prices.tail(10))
PreviewHidden ==
    /\ pc = "preview"
    /\ pc' = "features"
    /\ UNCHANGED <<bundled, uploaded, prediction_days, cache_data, cache_resource, raw>>
    /\ UNCHANGED <<df_prices, features, trained, forecast_df, shown, failed_at>>
    /\ UNCHANGED others

Preview ==
    /\ pc = "preview"
    /\ shown' = Append(shown, "Raw Data Preview")
    /\ pc' = "features"
    /\ UNCHANGED <<bundled, uploaded, prediction_days, cache_data, cache_resource, raw>>
    /\ UNCHANGED <<df_prices, features, trained, forecast_df, failed_at>>
    /\ UNCHANGED others

\* X, y = prepare_features(df_prices)
Encode ==
    /\ pc = "features"
    /\ features' = <<PrepareFeatures(df_prices)>>
    /\ pc' = "train"
    /\ UNCHANGED <<bundled, uploaded, prediction_days, cache_data, cache_resource, raw>>
    /\ UNCHANGED <<df_prices, trained, forecast_df, shown, failed_at>>
    /\ UNCHANGED others

\* model, rmse, best_params = train_model(X, y)
TrainHit ==
    /\ pc = "train"
    /\ CacheHit(cache_resource, ResourceKey(features[1]))
    /\ trained' = <<CacheGet(cache_resource, ResourceKey(features[1]))>>
    /\ pc' = "metrics"
    /\ UNCHANGED <<bundled, uploaded, prediction_days, cache_data, cache_resource, raw>>
    /\ UNCHANGED <<df_prices, features, forecast_df, shown, failed_at>>
    /\ UNCHANGED others

TrainRaise ==
    /\ pc = "train"
    /\ ~CacheHit(cache_resource, ResourceKey(features[1]))
    /\ TrainModel(features[1]) = <<>>
    /\ Fail("train", "error: ValueError")
    /\ UNCHANGED <<bundled, uploaded, prediction_days, cache_data, cache_resource, raw>>
    /\ UNCHANGED <<df_prices, features, trained, forecast_df>>
    /\ UNCHANGED others

TrainMiss ==
    /\ pc = "train"
    /\ ~CacheHit(cache_resource, ResourceKey(features[1]))
    /\ TrainModel(features[1]) # <<>>
    /\ trained' = TrainModel(features[1])
    /\ cache_resource' =
          cache_resource \cup {<<ResourceKey(features[1]), TrainModel(features[1])[1]>>}
    /\ pc' = "metrics"
    /\ UNCHANGED <<bundled, uploaded, prediction_days, cache_data, raw>>
    /\ UNCHANGED <<df_prices, features, forecast_df, shown, failed_at>>
    /\ UNCHANGED others

\* st.metric("Cross-validated RMSE", ...); st.json(best_params)
ShowMetrics ==
    /\ pc = "metrics"
    /\ shown' = shown \o <<"Cross-validated RMSE", "Best parameters">>
    /\ pc' = "forecast"
    /\ UNCHANGED <<bundled, uploaded, prediction_days, cache_data, cache_resource, raw>>
    /\ UNCHANGED <<df_prices, features, trained, forecast_df, failed_at>>
    /\ UNCHANGED others

\* forecast_df = make_forecast(model, df_prices, prediction_days)
MakeForecast ==
    /\ pc = "forecast"
    /\ forecast_df' = MakeForecastDf(trained[1], df_prices, prediction_days)
    /\ pc' = "table"
    /\ UNCHANGED <<bundled, uploaded, prediction_days, cache_data, cache_resource, raw>>
    /\ UNCHANGED <<df_prices, features, trained, shown, failed_at>>
    /\ UNCHANGED others

\* st.subheader(f"{prediction_days}-Day Price Forecast"); st.dataframe(...)
ShowForecast ==
    /\ pc = "table"
    /\ shown' = Append(shown, "Price Forecast")
    /\ pc' = "plot"
    /\ UNCHANGED <<bundled, uploaded, prediction_days, cache_data, cache_resource, raw>>
    /\ UNCHANGED <<df_prices, features, trained, forecast_df, failed_at>>
    /\ UNCHANGED others

\* fig = create_plot(...); st.pyplot(fig)
Plot ==
    /\ pc = "plot"
    /\ shown' = Append(shown, "Historical vs Forecast Chart")
    /\ pc' = "done"
    /\ UNCHANGED <<bundled, uploaded, prediction_days, cache_data, cache_resource, raw>>
    /\ UNCHANGED <<df_prices, features, trained, forecast_df, failed_at>>
    /\ UNCHANGED others

Next ==
    \/ \E f \in UploadFiles : Upload(f)
    \/ \E h \in min_value .. max_value : MoveSlider(h)
    \/ \E f \in BundledFiles : ReplaceBundled(f)
    \/ RunClicked
    \/ LoadHit \/ LoadFileNotFound \/ LoadSchemaError \/ LoadMiss
    \/ Preview \/ Encode
    \/ TrainHit \/ TrainRaise \/ TrainMiss
    \/ ShowMetrics \/ MakeForecast \/ ShowForecast \/ Plot

Spec == InitPage /\ [][Next]_vars

\* The run has got past load_price_data.
PastLoad ==
    \/ pc \in {"preview", "features", "train", "metrics", "forecast", "table",
               "plot", "done"}
    \/ pc = "error" /\ failed_at # "load"

\* C1: for every loaded series and every horizon of the slider (1..30),
\* make_forecast returns exactly that many rows, row i (0-based) dated the last
\* observed date plus i+1 days: one day apart, strictly increasing, all after
\* every observed date.
C1_ForecastRows ==
    (pc \in {"table", "plot", "done"}) =>
        /\ prediction_days \in min_value .. max_value
        /\ Len(forecast_df) = prediction_days
        /\ \A i \in DOMAIN forecast_df :
              forecast_df[i].Date = df_prices[Len(df_prices)].Date + i
        /\ \A i \in DOMAIN forecast_df : \A k \in DOMAIN df_prices :
              forecast_df[i].Date > df_prices[k].Date
        /\ \A i \in DOMAIN forecast_df :
              i > 1 => forecast_df[i].Date = forecast_df[i - 1].Date + 1

\* The longest forecast, on the file that came newest-first.
C1_Witness ==
    /\ pc = "done"
    /\ raw = Good6
    /\ Len(forecast_df) = max_value
    /\ forecast_df[1].Date = n_splits + 2

\* C3 (as claimed): when the input of the run lacks the Date or the Price
\* column, the run fails in the loader, with its ValueError shown, before
\* anything is encoded, fitted or forecast.
C3_SchemaErrorBeforeFit ==
    (raw.exists /\ SchemaRaises(raw) /\ pc \notin {"idle", "load"}) =>
        /\ pc = "error" /\ failed_at = "load"
        /\ shown = <<"error: ValueError">>
        /\ df_prices = <<>> /\ features = <<>> /\ trained = <<>>
        /\ forecast_df = <<>>

\* C4 (as claimed): a run that failed has surfaced nothing of its earlier
\* stages: the error message is all the run block shows.
C4_NoPartialResults ==
    (pc = "error") => Len(shown) = 1

\* C4 (amended): a run that fails stops at the failing stage: nothing is fitted
\* or forecast after it and nothing of a later stage is shown; what the earlier
\* stages rendered stays.  A failure in the loader leaves the error message
\* alone; a failure in training leaves the Raw Data Preview of the loaded
\* Series above the error message.
C4_AbortAtFirstFailure ==
    (pc = "error") =>
        /\ failed_at \in {"load", "train"}
        /\ trained = <<>> /\ forecast_df = <<>>
        /\ (failed_at = "load") =>
              /\ df_prices = <<>> /\ features = <<>>
              /\ shown \in {<<"error: ValueError">>, <<"error: FileNotFoundError">>}
        /\ (failed_at = "train") =>
              /\ features = <<PrepareFeatures(df_prices)>>
              /\ shown = <<"Raw Data Preview", "error: ValueError">>

\* Training failed on the three-row upload, after its preview was rendered.
C4_Witness ==
    /\ pc = "error" /\ failed_at = "train"
    /\ raw = Short3
    /\ Len(df_prices) = Len(Short3.rows)
    /\ shown[1] = "Raw Data Preview"

\* C5 (as claimed): the Series, the features and the fitted model of a run are
\* computed from the raw input of that run, also when bitcoin.csv has changed
\* since an earlier run.
C5_RunUsesOwnInput ==
    (PastLoad /\ raw.exists /\ ~SchemaRaises(raw)) =>
        /\ df_prices \in LoadPriceData(raw)
        /\ (features # <<>>) => features = <<PrepareFeatures(df_prices)>>
        /\ (trained # <<>>) => trained = TrainModel(features[1])

\* C8 (as claimed): a file with both columns and no data row makes the loader
\* fail; its empty Series is never returned, encoded or handed to training.
C8_EmptyRejected ==
    (raw.exists /\ ~SchemaRaises(raw) /\ raw.rows = <<>> /\ pc \notin {"idle", "load"}) =>
        /\ pc = "error" /\ failed_at = "load"
        /\ features = <<>>

=============================================================================
